---- MODULE Spec2Model ----
(***************************************************************************)
(* Model of the discusspedia-be post API (api/post.go), its post           *)
(* repository (repository/post.go) and the questionnaire handlers          *)
(* (api/questionnaire.go).                                                  *)
(*                                                                         *)
(* The store is SQLite, opened without the foreign-key pragma, so the only *)
(* constraints the store enforces are the ones the statements state.       *)
(*                                                                         *)
(* Four specifications share the variables:                                *)
(*   SpecFeed    the row folding of readPosts on arbitrary row sequences   *)
(*   SpecList    the list endpoints on a drawn store                       *)
(*   Spec        create / update / delete / detail requests, the two store *)
(*               calls of update and delete interleaved with other requests*)
(*   SpecUpload  uploadPostImages: one goroutine per file, the mutex, the  *)
(*               wait group, interleaved with create and delete            *)
(***************************************************************************)
EXTENDS Integers, Sequences, FiniteSets, TLC

VARIABLES
    posts,        \* table posts (with the questionnaires.link join): id -> row
    images,       \* table post_images, in rowid order: sequence of rows
    nextPostID,   \* next rowid of posts
    nextImageID,  \* next rowid of post_images
    rows,         \* SpecFeed: the flat rows handed to the assembler
    feed,         \* SpecFeed: [ran, body], the assembled response body
    last,         \* the last completed single-store-call request and its response
    req,          \* Spec: the observed request, in flight or answered
    up,           \* SpecUpload: the uploadPostImages handler
    unit,         \* SpecUpload: the per-file goroutines
    mu            \* SpecUpload: sync.Mutex, 0 when free, else the holder

vars == <<posts, images, nextPostID, nextImageID, rows, feed, last, req, up, unit, mu>>

storeVars == <<posts, images, nextPostID, nextImageID>>
feedVars == <<rows, feed>>
uploadVars == <<up, unit, mu>>

-----------------------------------------------------------------------------
(* Bounds *)

MaxFeedRows == 3      \* rows of a drawn row sequence
MaxFeedPosts == 2     \* post ids in a drawn row sequence
MaxFeedImages == 2    \* image ids in a drawn row sequence

-----------------------------------------------------------------------------
(* Values *)

NotRun == [ran |-> FALSE, body |-> <<>>]
None == [op |-> "none"]

\* http status codes used by the handlers
StatusOK == 200
StatusBadRequest == 400
StatusForbidden == 403
StatusNotFound == 404
StatusInternalServerError == 500

Last(s) == s[Len(s)]

Range(s) == {s[i] : i \in 1..Len(s)}

-----------------------------------------------------------------------------
(* readPosts, lines 266-344: folding the flat rows into one entry per post *)

\* PostDetail row -> PostResponse (post.go 297-316); CreatedAt is formatted
\* by FormatTime below.
TicksPerSecond == 2

FormatTime(t) == t \div TicksPerSecond

PostResponseOf(post, authorID) ==
    [ id           |-> post.id,
      isLike       |-> post.isLike,
      isAuthor     |-> authorID = post.authorID,
      authorID     |-> post.authorID,
      categoryID   |-> post.categoryID,
      title        |-> post.title,
      createdAt    |-> FormatTime(post.createdAt),
      commentCount |-> post.commentCount,
      likeCount    |-> post.likeCount ]

PostImageResponseOf(post) == [id |-> post.imageID, url |-> post.imagePath]

\* A mutated guard of the first loop: only the comparison with the queue's
\* last element, without the map lookup.
QueueAppendLastOnly(queue, detail, id) ==
    Len(queue) = 0 \/ queue[Len(queue)] # id

\* The guard under which the first loop appends to postIDqueue (270-274).
QueueAppend(queue, detail, id) ==
    /\ id \notin DOMAIN detail
    /\ (Len(queue) = 0 \/ queue[Len(queue)] # id)

\* First loop (269-318): st = [queue, detail] after rows i..Len(ps).
RECURSIVE FoldDetails(_, _, _, _)
FoldDetails(ps, i, st, authorID) ==
    IF i > Len(ps) THEN st
    ELSE LET post == ps[i]
             q2 == IF QueueAppend(st.queue, st.detail, post.id)
                   THEN Append(st.queue, post.id) ELSE st.queue
             d2 == IF post.id \in DOMAIN st.detail THEN st.detail
                   ELSE [k \in DOMAIN st.detail \cup {post.id} |->
                           IF k = post.id THEN PostResponseOf(post, authorID)
                           ELSE st.detail[k]]
         IN FoldDetails(ps, i + 1, [queue |-> q2, detail |-> d2], authorID)

\* Second loop, mutated: appends the image columns of every row.
ImageAppendAlways(post) == TRUE

\* The guard under which the second loop appends an image (327).
ImageAppend(post) == post.imageValid

\* Second loop (320-333): the image map after rows i..Len(ps).
RECURSIVE FoldImages(_, _, _)
FoldImages(ps, i, imgs) ==
    IF i > Len(ps) THEN imgs
    ELSE LET post == ps[i]
             cur == IF post.id \in DOMAIN imgs THEN imgs[post.id] ELSE <<>>
             new == IF ImageAppend(post)
                    THEN Append(cur, PostImageResponseOf(post)) ELSE cur
         IN FoldImages(ps, i + 1,
                [k \in DOMAIN imgs \cup {post.id} |->
                    IF k = post.id THEN new ELSE imgs[k]])

\* Lines 261-344: the response body of readPosts for the rows ps.
AssemblePosts(ps, authorID) ==
    IF Len(ps) = 0 THEN <<>>
    ELSE LET st   == FoldDetails(ps, 1, [queue |-> <<>>, detail |-> <<>>], authorID)
             imgs == FoldImages(ps, 1, <<>>)
         IN [i \in 1..Len(st.queue) |->
               [post |-> st.detail[st.queue[i]], images |-> imgs[st.queue[i]]]]

-----------------------------------------------------------------------------
(* Identity *)

\* Rows of table users. No request of this model adds or removes a user.
Users == {1, 2}

\* What a request carries as Authorization header: a valid token of a user,
\* a token that does not verify, or no header at all.
NoHeader == "none"
BadToken == "bad"
Credentials == [kind : {"user"}, id : Users]
               \cup {[kind |-> NoHeader, id |-> 0], [kind |-> BadToken, id |-> 0]}

\* The id returned beside an error.
AnonymousID == 0 - 1

\* getUserIdFromToken: the user id of a valid token; an error and the
\* anonymous id for a token that does not verify; a panic when there is no
\* header to cut the token from.
GetUserIdFromToken(cred) ==
    CASE cred.kind = "user"   -> [id |-> cred.id, err |-> FALSE, panic |-> FALSE]
      [] cred.kind = BadToken -> [id |-> AnonymousID, err |-> TRUE, panic |-> FALSE]
      [] OTHER                -> [id |-> 0, err |-> TRUE, panic |-> TRUE]

\* getUserIDAvoidPanic (519-528): the named result keeps Go's zero value when
\* the call panics, and is whatever the call returned otherwise; the error
\* is dropped.
GetUserIDAvoidPanic(cred) ==
    LET r == GetUserIdFromToken(cred) IN IF r.panic THEN 0 ELSE r.id

-----------------------------------------------------------------------------
(* Query parameters and their parsing *)

\* A raw query parameter that strconv parses: a number (or boolean) or text
\* that does not parse.
Num(n) == [ok |-> TRUE, val |-> n]
Malformed == [ok |-> FALSE, val |-> 0]

\* Substring test of title LIKE '%s%' on titles as character sequences.
Contains(t, s) ==
    \E i \in 0..(Len(t) - Len(s)) : SubSeq(t, i + 1, i + Len(s)) = s

\* Mutated sort_by switch: most_liked mapped to the comment count.
OrderByOfSwapped(sortBy) ==
    CASE sortBy = "newest"         -> [col |-> "created_at", desc |-> TRUE, ok |-> TRUE]
      [] sortBy = "oldest"         -> [col |-> "created_at", desc |-> FALSE, ok |-> TRUE]
      [] sortBy = "most_liked"     -> [col |-> "comment_count", desc |-> TRUE, ok |-> TRUE]
      [] sortBy = "most_commented" -> [col |-> "comment_count", desc |-> TRUE, ok |-> TRUE]
      [] OTHER                     -> [col |-> "", desc |-> FALSE, ok |-> FALSE]

\* The sort_by switch of readPosts (213-226).
OrderByOf(sortBy) ==
    CASE sortBy = "newest"         -> [col |-> "created_at", desc |-> TRUE, ok |-> TRUE]
      [] sortBy = "oldest"         -> [col |-> "created_at", desc |-> FALSE, ok |-> TRUE]
      [] sortBy = "most_liked"     -> [col |-> "like_count", desc |-> TRUE, ok |-> TRUE]
      [] sortBy = "most_commented" -> [col |-> "comment_count", desc |-> TRUE, ok |-> TRUE]
      [] OTHER                     -> [col |-> "", desc |-> FALSE, ok |-> FALSE]

\* The filter text of readPosts (228-252) as the sequence of its AND clauses.
FilterQueryOf(searchTitle, categoryID, me, authorID) ==
    (IF searchTitle # <<>> THEN <<[col |-> "title", val |-> searchTitle]>> ELSE <<>>)
    \o (IF categoryID # 0 THEN <<[col |-> "category_id", val |-> categoryID]>> ELSE <<>>)
    \o (IF me THEN <<[col |-> "author_id", val |-> authorID]>> ELSE <<>>)

-----------------------------------------------------------------------------
(* PostRepository.FetchAllPost (633-727) *)

LikeCount(p) == Cardinality(posts[p].likers)

\* The value of an ORDER BY column for post p.
SortKey(col, p) ==
    CASE col = "created_at"    -> posts[p].createdAt
      [] col = "like_count"    -> LikeCount(p)
      [] col = "comment_count" -> posts[p].commentCount

\* One AND clause of the WHERE text, on post p.
ClauseHolds(c, p) ==
    CASE c.col = "title"       -> Contains(posts[p].title, c.val)
      [] c.col = "category_id" -> posts[p].categoryID = c.val
      [] c.col = "author_id"   -> posts[p].authorID = c.val

\* The posts of the inner SELECT before ORDER BY (670-682): joined with an
\* existing user, without a questionnaire link, matching the filter.
Matching(filter) ==
    {p \in DOMAIN posts :
        /\ posts[p].authorID \in Users
        /\ ~posts[p].link
        /\ \A i \in 1..Len(filter) : ClauseHolds(filter[i], p)}

\* The orders ORDER BY may give the set S: sorted by the key, ties in an
\* order the store chooses.
Orderings(S, orderBy) ==
    {q \in [1..Cardinality(S) -> S] :
        /\ \A i, j \in 1..Cardinality(S) : i # j => q[i] # q[j]
        /\ \A i \in 1..(Cardinality(S) - 1) :
              IF orderBy.desc
              THEN SortKey(orderBy.col, q[i]) >= SortKey(orderBy.col, q[i + 1])
              ELSE SortKey(orderBy.col, q[i]) <= SortKey(orderBy.col, q[i + 1])}

\* LIMIT l OFFSET o of SQLite on a sequence: a negative offset is none, a
\* negative limit is no limit.
LimitOffset(q, limit, offset) ==
    LET from == IF offset < 0 THEN 0 ELSE offset
        rest == IF from >= Len(q) THEN <<>> ELSE SubSeq(q, from + 1, Len(q))
    IN IF limit < 0 \/ limit >= Len(rest) THEN rest ELSE SubSeq(rest, 1, limit)

\* The post_images rows of post p, in rowid order.
RECURSIVE ImagesOf(_, _)
ImagesOf(p, i) ==
    IF i > Len(images) THEN <<>>
    ELSE IF images[i].postID = p THEN <<images[i]>> \o ImagesOf(p, i + 1)
         ELSE ImagesOf(p, i + 1)

\* The scanned PostDetail rows of one post of the page: LEFT JOIN
\* post_images (686) gives one row per image, or one row with NULL image.
JoinedRows(p, authorID) ==
    LET base == [ id |-> p, isLike |-> authorID \in posts[p].likers,
                  authorID |-> posts[p].authorID,
                  categoryID |-> posts[p].categoryID, title |-> posts[p].title,
                  createdAt |-> posts[p].createdAt,
                  commentCount |-> posts[p].commentCount,
                  likeCount |-> LikeCount(p) ]
        withImage(im) == [ id |-> base.id, isLike |-> base.isLike,
                  authorID |-> base.authorID, categoryID |-> base.categoryID,
                  title |-> base.title, createdAt |-> base.createdAt,
                  commentCount |-> base.commentCount, likeCount |-> base.likeCount,
                  imageValid |-> im.valid, imageID |-> im.id, imagePath |-> im.path ]
        ims == ImagesOf(p, 1)
    IN IF Len(ims) = 0
       THEN <<withImage([valid |-> FALSE, id |-> 0, path |-> 0])>>
       ELSE [i \in 1..Len(ims) |->
               withImage([valid |-> TRUE, id |-> ims[i].id, path |-> ims[i].path])]

RECURSIVE JoinImages(_, _, _)
JoinImages(page, i, authorID) ==
    IF i > Len(page) THEN <<>>
    ELSE JoinedRows(page[i], authorID) \o JoinImages(page, i + 1, authorID)

\* Mutated query: LIMIT and OFFSET applied to the joined rows.
FetchAllPostLimitAfterJoin(limit, offset, authorID, orderBy, filter, ordered) ==
    LimitOffset(JoinImages(ordered, 1, authorID), limit, offset)

\* The rows of FetchAllPost, given the order ORDER BY produced: LIMIT and
\* OFFSET cut the ordered posts (683-684), then the images are joined (686).
FetchAllPost(limit, offset, authorID, orderBy, filter, ordered) ==
    JoinImages(LimitOffset(ordered, limit, offset), 1, authorID)

-----------------------------------------------------------------------------
(* readPosts (198-345) *)

ListResponse(op, q, authorID, status, queried, filter, body) ==
    [ op |-> op, q |-> q, authorID |-> authorID, status |-> status,
      queried |-> queried, filter |-> filter, body |-> body ]

\* The filter readPosts hands to FetchAllPost (228-252).
ReadPostsFilter(q, authorID) ==
    FilterQueryOf(q.searchTitle, q.categoryID.val, q.me.val, authorID)

\* The response of readPosts to the query q; ordered is the order the
\* store's ORDER BY gave the matching posts.
ReadPostsResponse(q, ordered) ==
    LET authorID == GetUserIDAvoidPanic(q.cred)
        orderBy  == OrderByOf(q.sortBy)
        filter   == ReadPostsFilter(q, authorID)
        reject   == ListResponse("readPosts", q, authorID, StatusBadRequest,
                                 FALSE, <<>>, <<>>)
    IN CASE ~q.offset.ok     -> reject
         [] ~q.limit.ok      -> reject
         [] ~orderBy.ok      -> reject
         [] ~q.categoryID.ok -> reject
         [] ~q.me.ok         -> reject
         [] q.storeFails     ->
              ListResponse("readPosts", q, authorID, StatusInternalServerError,
                           TRUE, filter, <<>>)
         [] OTHER ->
              ListResponse("readPosts", q, authorID, StatusOK, TRUE, filter,
                  AssemblePosts(
                      FetchAllPost(q.limit.val, q.offset.val, authorID,
                                   orderBy, filter, ordered),
                      authorID))

\* Whether readPosts reaches FetchAllPost with q.
ReadPostsQueries(q) ==
    /\ q.offset.ok /\ q.limit.ok /\ OrderByOf(q.sortBy).ok
    /\ q.categoryID.ok /\ q.me.ok /\ ~q.storeFails

-----------------------------------------------------------------------------
(* ReadAllQuestionnaires (questionnaire.go 34-101) *)

\* The sort_by switch of ReadAllQuestionnaires (35-48).
QOrderByOf(sortBy) ==
    CASE sortBy = "newest"         -> [col |-> "created_at", desc |-> TRUE, ok |-> TRUE]
      [] sortBy = "oldest"         -> [col |-> "created_at", desc |-> FALSE, ok |-> TRUE]
      [] sortBy = "most_liked"     -> [col |-> "like_count", desc |-> TRUE, ok |-> TRUE]
      [] sortBy = "most_commented" -> [col |-> "comment_count", desc |-> TRUE, ok |-> TRUE]
      [] OTHER                     -> [col |-> "", desc |-> FALSE, ok |-> FALSE]

\* The filter text of ReadAllQuestionnaires (50-62, 79-81): the title clause
\* is always there.
QFilterQueryOf(searchTitle, categoryID, me, userID) ==
    <<[col |-> "title", val |-> searchTitle]>>
    \o (IF categoryID # 0 THEN <<[col |-> "category_id", val |-> categoryID]>> ELSE <<>>)
    \o (IF me THEN <<[col |-> "author_id", val |-> userID]>> ELSE <<>>)

\* The questionnaires the list query of the questionnaire repository selects.
QMatching(filter) ==
    {p \in DOMAIN posts :
        /\ posts[p].authorID \in Users
        /\ posts[p].link
        /\ \A i \in 1..Len(filter) : ClauseHolds(filter[i], p)}

\* A row of the questionnaire list.
QuestionnaireOf(p, userID) ==
    [ id |-> p, authorID |-> posts[p].authorID,
      isLike |-> userID \in posts[p].likers,
      isAuthor |-> userID = posts[p].authorID,
      categoryID |-> posts[p].categoryID, title |-> posts[p].title,
      createdAt |-> posts[p].createdAt,
      commentCount |-> posts[p].commentCount, likeCount |-> LikeCount(p) ]

\* The me branch of ReadAllQuestionnaires (79-86): TRUE when the request
\* goes on to the query.
QMeAllowed(me, userID) == me => userID # AnonymousID

ReadAllQuestionnairesResponse(q, ordered) ==
    LET orderBy == QOrderByOf(q.sortBy)
        res     == GetUserIdFromToken(q.cred)
        userID  == IF q.cred.kind = NoHeader THEN AnonymousID ELSE res.id
        filter  == QFilterQueryOf(q.searchTitle, q.categoryID.val, q.me.val, userID)
        reject(status) ==
            ListResponse("ReadAllQuestionnaires", q, userID, status, FALSE, <<>>, <<>>)
    IN CASE ~orderBy.ok      -> reject(StatusBadRequest)
         [] ~q.categoryID.ok -> reject(StatusBadRequest)
         [] ~q.me.ok         -> reject(StatusBadRequest)
         [] q.cred.kind # NoHeader /\ res.panic -> reject(StatusInternalServerError)
         [] q.cred.kind # NoHeader /\ res.err   -> reject(StatusBadRequest)
         [] ~QMeAllowed(q.me.val, userID)       -> reject(StatusBadRequest)
         [] q.storeFails ->
              ListResponse("ReadAllQuestionnaires", q, userID,
                           StatusInternalServerError, TRUE, filter, <<>>)
         [] OTHER ->
              ListResponse("ReadAllQuestionnaires", q, userID, StatusOK, TRUE, filter,
                  [i \in 1..Len(ordered) |-> QuestionnaireOf(ordered[i], userID)])

ReadAllQuestionnairesQueries(q) ==
    LET res == GetUserIdFromToken(q.cred) IN
    /\ QOrderByOf(q.sortBy).ok /\ q.categoryID.ok /\ q.me.ok
    /\ (q.cred.kind # NoHeader => ~res.err)
    /\ QMeAllowed(q.me.val, IF q.cred.kind = NoHeader THEN AnonymousID ELSE res.id)
    /\ ~q.storeFails

-----------------------------------------------------------------------------
(* SpecList: the two list endpoints on every store within the bounds *)

MaxPosts == 2         \* posts (without the questionnaires) of a drawn store

SortBys == {"newest", "oldest", "most_liked", "most_commented", "hot"}
Limits == {0 - 1, 1, 2}
Offsets == {0, 1}
SearchTitles == {<<>>, <<"b">>}
CategoryIDs == {0, 2}

\* The requests drawn: every combination of well-formed parameters, and one
\* request per parameter that does not parse and for a failing store.
DefaultQuery ==
    [ cred |-> [kind |-> NoHeader, id |-> 0], offset |-> Num(0), limit |-> Num(20),
      sortBy |-> "newest", searchTitle |-> <<>>, categoryID |-> Num(0),
      me |-> Num(FALSE), storeFails |-> FALSE ]

ListQueries ==
    [ cred : Credentials, offset : {Num(n) : n \in Offsets},
      limit : {Num(n) : n \in Limits}, sortBy : SortBys,
      searchTitle : SearchTitles, categoryID : {Num(n) : n \in CategoryIDs},
      me : {Num(b) : b \in BOOLEAN}, storeFails : {FALSE} ]
    \cup { [DefaultQuery EXCEPT !.offset = Malformed],
           [DefaultQuery EXCEPT !.limit = Malformed],
           [DefaultQuery EXCEPT !.categoryID = Malformed],
           [DefaultQuery EXCEPT !.me = Malformed],
           [DefaultQuery EXCEPT !.storeFails = TRUE] }

\* The drawn part of a post: who likes it, its comments, its images.
LikerSets == {{}, {1}}
CommentCounts == {0, 1}
ImageCounts == {0, 2}

\* A stored post. Author, category and title alternate with the id; the
\* creation time grows with the id.
StoredPost(id, likers, comments, link) ==
    [ authorID |-> 1 + ((id + 1) % 2), categoryID |-> 1 + ((id \div 2) % 2),
      title |-> IF id % 2 = 1 THEN <<"a">> ELSE <<"a", "b">>, desc |-> <<"a">>,
      createdAt |-> id, commentCount |-> comments, likers |-> likers,
      link |-> link ]

\* post_images with n[p] images for each post p, post after post.
RECURSIVE StoredImages(_, _, _)
StoredImages(n, p, nextID) ==
    IF p > MaxPosts THEN <<>>
    ELSE [i \in 1..n[p] |-> [id |-> nextID + i - 1, postID |-> p, path |-> nextID + i - 1]]
         \o StoredImages(n, p + 1, nextID + n[p])

InitList ==
    /\ \E l \in [1..MaxPosts -> LikerSets], c \in [1..MaxPosts -> CommentCounts],
          n \in [1..MaxPosts -> ImageCounts] :
          /\ posts = [id \in 1..(MaxPosts + 2) |->
                        IF id <= MaxPosts THEN StoredPost(id, l[id], c[id], FALSE)
                        ELSE StoredPost(id, {}, 0, TRUE)]
          /\ images = StoredImages(n, 1, 1)
    /\ nextPostID = MaxPosts + 3
    /\ nextImageID = Len(images) + 1
    /\ rows = <<>> /\ feed = NotRun
    /\ last = None /\ req = None /\ up = None /\ unit = <<>> /\ mu = 0

ReadPosts ==
    /\ last = None
    /\ \E q \in ListQueries :
       \E ordered \in (IF ReadPostsQueries(q)
                       THEN Orderings(Matching(ReadPostsFilter(q, GetUserIDAvoidPanic(q.cred))),
                                      OrderByOf(q.sortBy))
                       ELSE {<<>>}) :
          /\ last' = ReadPostsResponse(q, ordered)
          /\ UNCHANGED <<storeVars, feedVars, req, uploadVars>>

ReadAllQuestionnaires ==
    /\ last = None
    /\ \E q \in ListQueries :
       \E ordered \in (IF ReadAllQuestionnairesQueries(q)
                       THEN Orderings(QMatching(ReadAllQuestionnairesResponse(q, <<>>).filter),
                                      QOrderByOf(q.sortBy))
                       ELSE {<<>>}) :
          /\ last' = ReadAllQuestionnairesResponse(q, ordered)
          /\ UNCHANGED <<storeVars, feedVars, req, uploadVars>>

NextList == ReadPosts \/ ReadAllQuestionnaires

SpecList == InitList /\ [][NextList]_vars

-----------------------------------------------------------------------------
(* Claims about the list endpoints, under SpecList *)

IsList(op) == last.op = op

BodyIDs == [i \in 1..Len(last.body) |->
              IF last.op = "readPosts" THEN last.body[i].post.id ELSE last.body[i].id]

BodyAuthor(i) ==
    IF last.op = "readPosts" THEN last.body[i].post.authorID ELSE last.body[i].authorID

\* C2: on both list endpoints, me=true without a resolved identity is
\* rejected with a client error and no list query runs; me=true with a
\* resolved identity runs the query with the predicate author id = caller id,
\* so every returned post is the caller's.
C2_MeRequiresIdentity ==
    (last.op \in {"readPosts", "ReadAllQuestionnaires"} /\ last.q.me.ok /\ last.q.me.val) =>
        /\ last.q.cred.kind # "user" =>
              (last.status = StatusBadRequest /\ ~last.queried)
        /\ (last.q.cred.kind = "user" /\ last.queried) =>
              /\ \E i \in 1..Len(last.filter) :
                    last.filter[i] = [col |-> "author_id", val |-> last.q.cred.id]
              /\ \A i \in 1..Len(last.body) : BodyAuthor(i) = last.q.cred.id

\* The part of C2 that ReadAllQuestionnaires alone satisfies.
C2_QuestionnairesMeRequiresIdentity ==
    (last.op = "ReadAllQuestionnaires" /\ last.q.me.ok /\ last.q.me.val) =>
        /\ last.q.cred.kind # "user" =>
              (last.status = StatusBadRequest /\ ~last.queried)
        /\ (last.q.cred.kind = "user" /\ last.queried) =>
              \A i \in 1..Len(last.body) : BodyAuthor(i) = last.q.cred.id

\* The key the response of readPosts must be ordered by, read off an entry.
EntryKey(sortBy, e) ==
    CASE sortBy \in {"newest", "oldest"} -> posts[e.post.id].createdAt
      [] sortBy = "most_liked"           -> e.post.likeCount
      [] sortBy = "most_commented"       -> e.post.commentCount

\* C8: for every valid sort_by the entries of the readPosts response are
\* ordered by the mapped key (newest, most_liked, most_commented descending,
\* oldest ascending), whatever the images did to the rows; an unrecognized
\* sort_by is rejected with a client error and no query runs.
C8_SortOrder ==
    last.op = "readPosts" =>
        /\ last.q.sortBy \notin {"newest", "oldest", "most_liked", "most_commented"} =>
              (last.status = StatusBadRequest /\ ~last.queried)
        /\ (last.q.sortBy \in {"newest", "oldest", "most_liked", "most_commented"}
            /\ last.status = StatusOK) =>
              \A i \in 1..(Len(last.body) - 1) :
                 IF last.q.sortBy = "oldest"
                 THEN EntryKey(last.q.sortBy, last.body[i])
                        <= EntryKey(last.q.sortBy, last.body[i + 1])
                 ELSE EntryKey(last.q.sortBy, last.body[i])
                        >= EntryKey(last.q.sortBy, last.body[i + 1])

\* most_liked puts the later post first, and the first entry holds two images.
C8_Witness ==
    /\ last.op = "readPosts" /\ last.status = StatusOK
    /\ last.q.sortBy = "most_liked"
    /\ Len(last.body) = 2
    /\ last.body[1].post.id > last.body[2].post.id
    /\ last.body[1].post.likeCount > last.body[2].post.likeCount
    /\ Len(last.body[1].images) = 2

\* The posts the filter of the last request selects, computed from the
\* posts table alone.
Selected ==
    {p \in DOMAIN posts :
        /\ posts[p].authorID \in Users /\ ~posts[p].link
        /\ (last.q.searchTitle # <<>> => Contains(posts[p].title, last.q.searchTitle))
        /\ (last.q.categoryID.val # 0 => posts[p].categoryID = last.q.categoryID.val)
        /\ (last.q.me.val => posts[p].authorID = last.authorID)}

\* The number of posts of a page of n selected posts.
PageSize(n, limit, offset) ==
    LET skip == IF offset < 0 THEN 0 ELSE offset
        left == IF n > skip THEN n - skip ELSE 0
    IN IF limit >= 0 /\ limit < left THEN limit ELSE left

ImageIDsOf(p) == {images[i].id : i \in {j \in 1..Len(images) : images[j].postID = p}}

\* The page is a window of the selected posts that images do not move: its
\* posts are distinct selected posts, as many as limit and offset leave of
\* them, no post outside the page sorts strictly between two posts of the
\* page, and every image of every post of the page is returned.
PageIsWindow ==
    LET ids == BodyIDs
        col == OrderByOf(last.q.sortBy).col
    IN /\ \A i, j \in 1..Len(ids) : i # j => ids[i] # ids[j]
       /\ Range(ids) \subseteq Selected
       /\ Len(ids) = PageSize(Cardinality(Selected), last.q.limit.val, last.q.offset.val)
       /\ \A p \in Selected \ Range(ids) : \A i, j \in 1..Len(ids) :
             ~(/\ SortKey(col, ids[i]) < SortKey(col, p)
               /\ SortKey(col, p) < SortKey(col, ids[j]))
       /\ \A i \in 1..Len(ids) :
             {last.body[i].images[k].id : k \in 1..Len(last.body[i].images)}
                = ImageIDsOf(ids[i])

\* C9 as stated: limit and offset cut the filtered, sorted posts before the
\* image join, a page holds at most limit distinct posts, and every image of
\* each selected post is returned.
C9_PageAtMostLimit ==
    (last.op = "readPosts" /\ last.status = StatusOK) =>
        /\ PageIsWindow
        /\ Len(last.body) <= last.q.limit.val

\* C9, amended: the same, with at most limit distinct posts in a page when
\* limit is not negative; a negative limit does not bound the page.
C9_Pagination ==
    (last.op = "readPosts" /\ last.status = StatusOK) =>
        /\ PageIsWindow
        /\ last.q.limit.val >= 0 => Len(last.body) <= last.q.limit.val

\* The second page of one post, whose two images both arrive, while the
\* first post has two images as well.
C9_Witness ==
    /\ last.op = "readPosts" /\ last.status = StatusOK
    /\ last.q.limit.val = 1 /\ last.q.offset.val = 1
    /\ last.q.sortBy = "oldest" /\ ~last.q.me.val
    /\ last.q.searchTitle = <<>> /\ last.q.categoryID.val = 0
    /\ Cardinality(ImageIDsOf(1)) = 2
    /\ Len(last.body) = 1
    /\ last.body[1].post.id = 2
    /\ Len(last.body[1].images) = 2

-----------------------------------------------------------------------------
(* SpecFeed: the assembler on every row sequence within the bounds *)

\* A PostDetail row as scanned by FetchAllPost (541-559); a NULL image is
\* imageValid = FALSE with zero id and path.
FeedRow(id, valid, img) ==
    [ id |-> id, isLike |-> FALSE, authorID |-> id, categoryID |-> 1,
      title |-> <<"a">>, createdAt |-> id, commentCount |-> 0, likeCount |-> 0,
      imageValid |-> valid,
      imageID   |-> IF valid THEN img ELSE 0,
      imagePath |-> IF valid THEN img ELSE 0 ]

FeedRows ==
    {FeedRow(id, TRUE, img) : id \in 1..MaxFeedPosts, img \in 1..MaxFeedImages}
    \cup {FeedRow(id, FALSE, 0) : id \in 1..MaxFeedPosts}

SeqsUpTo(S, n) == UNION {[1..k -> S] : k \in 0..n}

InitFeed ==
    /\ rows \in SeqsUpTo(FeedRows, MaxFeedRows)
    /\ feed = NotRun
    /\ posts = <<>> /\ images = <<>> /\ nextPostID = 1 /\ nextImageID = 1
    /\ last = None /\ req = None /\ up = None /\ unit = <<>> /\ mu = 0

Assemble ==
    /\ ~feed.ran
    /\ feed' = [ran |-> TRUE, body |-> AssemblePosts(rows, 1)]
    /\ UNCHANGED <<storeVars, rows, last, req, uploadVars>>

NextFeed == Assemble

SpecFeed == InitFeed /\ [][NextFeed]_vars

\* Indices of the rows of post id, in row order.
RowsOf(ps, id) == {i \in 1..Len(ps) : ps[i].id = id}

FirstRow(ps, id) == CHOOSE i \in RowsOf(ps, id) : \A j \in RowsOf(ps, id) : i <= j

\* The non-null images of the rows of post id, in row order.
RECURSIVE ImagesInRowOrder(_, _, _)
ImagesInRowOrder(ps, id, i) ==
    IF i > Len(ps) THEN <<>>
    ELSE IF ps[i].id = id /\ ps[i].imageValid
         THEN <<[id |-> ps[i].imageID, url |-> ps[i].imagePath]>>
              \o ImagesInRowOrder(ps, id, i + 1)
         ELSE ImagesInRowOrder(ps, id, i + 1)

\* C1: the response of readPosts holds exactly one entry per distinct post id
\* of the rows, in the order in which the ids first occur, and each entry's
\* image list holds exactly the non-null images of that post's rows in row
\* order (the empty list for a post without image).
C1_FeedAssembly ==
    feed.ran =>
        LET body == feed.body IN
        /\ {body[i].post.id : i \in 1..Len(body)} = {rows[i].id : i \in 1..Len(rows)}
        /\ \A i, j \in 1..Len(body) : i # j => body[i].post.id # body[j].post.id
        /\ \A i, j \in 1..Len(body) :
              i < j => FirstRow(rows, body[i].post.id) < FirstRow(rows, body[j].post.id)
        /\ \A i \in 1..Len(body) :
              body[i].images = ImagesInRowOrder(rows, body[i].post.id, 1)

\* The spec's example, with a post returning after another one:
\* rows (1,A),(2,null),(1,B) fold into {1,[A,B]},{2,[]}.
C1_Witness ==
    /\ feed.ran
    /\ Len(rows) = 3
    /\ rows[1].id = 1 /\ rows[1].imageValid
    /\ rows[2].id = 2 /\ ~rows[2].imageValid
    /\ rows[3].id = 1 /\ rows[3].imageValid /\ rows[3].imageID # rows[1].imageID
    /\ Len(feed.body) = 2
    /\ Len(feed.body[1].images) = 2
    /\ feed.body[2].images = <<>>

-----------------------------------------------------------------------------
(* The post repository: writes and the author lookup *)

\* service.Validate: FALSE for a text holding a bad word.
BadWord == <<"x">>

Validate(text) == ~Contains(text, BadWord)

\* InsertPost (575-606): a new posts row under the next rowid.
InsertPost(authorID, categoryID, title, description, link) ==
    [id \in DOMAIN posts \cup {nextPostID} |->
        IF id = nextPostID
        THEN [ authorID |-> authorID, categoryID |-> categoryID, title |-> title,
               desc |-> description, createdAt |-> nextPostID, commentCount |-> 0,
               likers |-> {}, link |-> link ]
        ELSE posts[id]]

\* FetchAuthorIDByPostID (798-827): the author id, or ErrPostNotFound.
FetchAuthorIDByPostID(postID) ==
    IF postID \in DOMAIN posts
    THEN [done |-> TRUE, found |-> TRUE, authorID |-> posts[postID].authorID]
    ELSE [done |-> TRUE, found |-> FALSE, authorID |-> 0]

\* UpdatePost (829-853): UPDATE ... WHERE id = ?, no row when the id is gone.
UpdatePost(postID, categoryID, title, description) ==
    [id \in DOMAIN posts |->
        IF id = postID
        THEN [posts[id] EXCEPT !.categoryID = categoryID, !.title = title,
                               !.desc = description]
        ELSE posts[id]]

RECURSIVE WithoutImagesOf(_, _)
WithoutImagesOf(postID, i) ==
    IF i > Len(images) THEN <<>>
    ELSE IF images[i].postID = postID THEN WithoutImagesOf(postID, i + 1)
         ELSE <<images[i]>> \o WithoutImagesOf(postID, i + 1)

\* DeletePostByID (855-883), in one transaction: the posts row and the
\* post_images rows of the post.
DeletePostByID(postID) ==
    [ posts  |-> [id \in DOMAIN posts \ {postID} |-> posts[id]],
      images |-> WithoutImagesOf(postID, 1) ]

\* ReadAllQuestionnaireByID of the questionnaire repository: the
\* questionnaire of a post with a link, or the empty Questionnaire{}.
ReadAllQuestionnaireByID(postID) ==
    IF postID \in DOMAIN posts /\ posts[postID].link
    THEN [done |-> TRUE, found |-> TRUE, authorID |-> posts[postID].authorID]
    ELSE [done |-> TRUE, found |-> FALSE, authorID |-> 0]

-----------------------------------------------------------------------------
(* Requests of the create, update and delete handlers *)

MaxStorePosts == 2    \* posts ever inserted in a behaviour

NotLooked == [done |-> FALSE, found |-> FALSE, authorID |-> 0]

\* A request: the handler op, where it stands (pc), what it was sent, the
\* id its identity resolved to, the result of its author lookup, the
\* responses it wrote with ctx.JSON and the store calls it made, in order.
NewRequest(op, cred, id, body) ==
    [ op |-> op, pc |-> "start", cred |-> cred, id |-> id, body |-> body,
      authorID |-> 0, idErr |-> FALSE, looked |-> NotLooked,
      resp |-> <<>>, calls |-> <<>> ]

NoRequest == [NewRequest("none", [kind |-> NoHeader, id |-> 0], 0,
                         [ok |-> FALSE, categoryID |-> 0, title |-> <<>>, desc |-> <<>>])
                EXCEPT !.pc = "done"]

\* ctx.JSON(status, ...) without return: the handler goes on.
Write(r, status) == [r EXCEPT !.resp = Append(@, status)]

\* ctx.JSON(status, ...) followed by return.
Answer(r, status) == [r EXCEPT !.resp = Append(@, status), !.pc = "done"]

Called(r, call) == [r EXCEPT !.calls = Append(@, call)]

\* Request bodies: ok is FALSE for a body (or an id parameter) that does not
\* bind.
Body(ok, cat, title, desc) == [ok |-> ok, categoryID |-> cat, title |-> title, desc |-> desc]

NoBody == Body(TRUE, 0, <<>>, <<>>)
Unbound == Body(FALSE, 0, <<>>, <<>>)

CreateBodies ==
    { Body(TRUE, 1, <<"a">>, <<"a">>), Body(TRUE, 1, <<"x">>, <<"a">>),
      Body(TRUE, 1, <<"a">>, <<"x">>), Unbound }

UpdateBodies ==
    { Body(TRUE, 2, <<"a", "b">>, <<"a">>), Body(TRUE, 2, <<"x">>, <<"a">>),
      Body(TRUE, 2, <<"a">>, <<"x">>), Unbound }

DeleteBodies == {NoBody, Unbound}

\* A mutated gate: only the title is classified.
ModeratedTitleOnly(body) == Validate(body.title)

\* isTitleOK && isDescriptionOK (91-93, 471-473; questionnaire.go 169-171,
\* 233-235).
Moderated(body) == Validate(body.title) /\ Validate(body.desc)

\* The identity step of createPost, updatePost and deletePost (98-101,
\* 454-457, 494-497): the error response is written and the handler goes on
\* with the id returned beside the error. A panic ends the request in the
\* router's recovery with 500.
ResolveAndGoOn(r) ==
    LET res == GetUserIdFromToken(r.cred) IN
    IF res.panic THEN Answer([r EXCEPT !.idErr = TRUE], StatusInternalServerError)
    ELSE IF res.err
         THEN Write([r EXCEPT !.idErr = TRUE, !.authorID = res.id], StatusBadRequest)
         ELSE [r EXCEPT !.authorID = res.id]

\* The identity step of the questionnaire handlers (questionnaire.go
\* 176-180, 240-244, 302-306): the error response is followed by return.
ResolveOrReturn(r) ==
    LET res == GetUserIdFromToken(r.cred) IN
    IF res.panic THEN Answer([r EXCEPT !.idErr = TRUE], StatusInternalServerError)
    ELSE IF res.err
         THEN Answer([r EXCEPT !.idErr = TRUE, !.authorID = res.id], StatusBadRequest)
         ELSE [r EXCEPT !.authorID = res.id]

PostOps == {"updatePost", "deletePost"}
QuestionnaireOps == {"UpdateQuestionnaire", "DeleteQuestionnaire"}
MutationOps == PostOps \cup QuestionnaireOps

\* createPost (81-116) and CreateQuestionnaire (questionnaire.go 144-206) up
\* to the insert: the request before its store call, or answered.
BeforeInsert(op, cred, body) ==
    LET r == NewRequest(op, cred, 0, body) IN
    IF ~body.ok THEN Answer(r, StatusBadRequest)
    ELSE IF ~Moderated(body) THEN Answer(r, StatusBadRequest)
    ELSE LET r2 == IF op = "createPost" THEN ResolveAndGoOn(r) ELSE ResolveOrReturn(r)
         IN IF r2.pc = "done" THEN r2 ELSE [r2 EXCEPT !.pc = "insert"]

\* updatePost (444-457), deletePost (487-497), UpdateQuestionnaire
\* (questionnaire.go 208-244) and DeleteQuestionnaire (292-306) up to the
\* author lookup.
BeforeLookup(op, cred, id, body) ==
    LET r == NewRequest(op, cred, id, body) IN
    IF ~body.ok THEN Answer(r, StatusBadRequest)
    ELSE IF op = "UpdateQuestionnaire" /\ ~Moderated(body) THEN Answer(r, StatusBadRequest)
    ELSE LET r2 == IF op \in PostOps THEN ResolveAndGoOn(r) ELSE ResolveOrReturn(r)
         IN IF r2.pc = "done" THEN r2 ELSE [r2 EXCEPT !.pc = "lookup"]

\* Mutated ownership check: every caller passes.
AuthorizedAlways(authorID, reqAuthorID) == TRUE

\* The ownership comparison (466, 506; questionnaire.go 260, 322).
Authorized(authorID, reqAuthorID) == authorID = reqAuthorID

\* The status of a lookup that found nothing: ErrPostNotFound gives 404 in
\* the post handlers (460-463, 500-503); the questionnaire handlers answer
\* the empty Questionnaire{} with 400 (questionnaire.go 254-259, 316-321).
NotFoundStatus(op) == IF op \in PostOps THEN StatusNotFound ELSE StatusBadRequest

\* The lookup and the checks after it (459-476, 499-509; questionnaire.go
\* 246-266, 308-328): the request before its mutation, or answered.
AfterLookup(r, fails) ==
    LET call == IF r.op \in PostOps THEN "FetchAuthorIDByPostID"
                ELSE "ReadAllQuestionnaireByID"
        r1   == Called(r, call)
        got  == IF r.op \in PostOps THEN FetchAuthorIDByPostID(r.id)
                ELSE ReadAllQuestionnaireByID(r.id)
        r2   == [r1 EXCEPT !.looked = got]
    IN IF fails THEN Answer(r1, StatusInternalServerError)
       ELSE IF ~got.found THEN Answer(r2, NotFoundStatus(r.op))
       ELSE IF ~Authorized(got.authorID, r.authorID) THEN Answer(r2, StatusForbidden)
       ELSE IF r.op = "updatePost" /\ ~Moderated(r.body) THEN Answer(r2, StatusBadRequest)
       ELSE [r2 EXCEPT !.pc = "mutate"]

MutationCall(op) ==
    CASE op = "updatePost"          -> "UpdatePost"
      [] op = "deletePost"          -> "DeletePostByID"
      [] op = "UpdateQuestionnaire" -> "UpdateQuestionnaire"
      [] op = "DeleteQuestionnaire" -> "DeleteQuestionnaire"

-----------------------------------------------------------------------------
(* Spec: the requests against the store *)

(* One request is observed: req holds it from its first step to its answer, *)
(* with the responses it wrote and the store calls it made. The requests of *)
(* other clients run the same handlers beside it; each of them makes at     *)
(* most one store write, in a transaction of its own, and only that write   *)
(* is visible to anyone else, so each is taken as one step at its write.    *)
(* A behaviour ends with the answer to the observed request.                *)

Init ==
    /\ posts = <<>> /\ images = <<>> /\ nextPostID = 1 /\ nextImageID = 1
    /\ rows = <<>> /\ feed = NotRun /\ last = None
    /\ req = NoRequest
    /\ up = None /\ unit = <<>> /\ mu = 0

notStore == <<feedVars, last, uploadVars>>

Answered == req.pc = "done" /\ req.op # "none"

InsertCall(op) == IF op = "createPost" THEN "InsertPost" ELSE "InsertQuestionnaire"

\* UpdateQuestionnaire and DeleteQuestionnaire of the questionnaire
\* repository: the row of the post changed, or removed with what hangs on it.
UpdateQuestionnaireRow(postID, categoryID, title, description) ==
    UpdatePost(postID, categoryID, title, description)

DeleteQuestionnaireRows(postID) == DeletePostByID(postID)

\* The store after the mutation call of request r.
AfterMutation(r) ==
    CASE r.op = "updatePost" ->
           [posts |-> UpdatePost(r.id, r.body.categoryID, r.body.title, r.body.desc),
            images |-> images]
      [] r.op = "UpdateQuestionnaire" ->
           [posts |-> UpdateQuestionnaireRow(r.id, r.body.categoryID, r.body.title,
                                             r.body.desc),
            images |-> images]
      [] r.op = "deletePost" -> DeletePostByID(r.id)
      [] r.op = "DeleteQuestionnaire" -> DeleteQuestionnaireRows(r.id)

\* The observed createPost or CreateQuestionnaire: one request, one store call.
Create(op) ==
    /\ req.op = "none"
    /\ nextPostID <= MaxStorePosts
    /\ \E cred \in Credentials, body \in CreateBodies, fails \in BOOLEAN :
          LET r == BeforeInsert(op, cred, body) IN
          IF r.pc = "done"
          THEN req' = r /\ UNCHANGED <<posts, nextPostID>>
          ELSE IF fails
               THEN /\ req' = Answer(Called(r, InsertCall(op)), StatusInternalServerError)
                    /\ UNCHANGED <<posts, nextPostID>>
               ELSE /\ req' = Answer(Called(r, InsertCall(op)), StatusOK)
                    /\ posts' = InsertPost(r.authorID, body.categoryID, body.title,
                                           body.desc, op = "CreateQuestionnaire")
                    /\ nextPostID' = nextPostID + 1
    /\ UNCHANGED <<images, nextImageID, notStore>>

CreatePost == Create("createPost")

CreateQuestionnaire == Create("CreateQuestionnaire")

\* The observed update or delete request up to its first store call.
StartMutation ==
    /\ req.op = "none"
    /\ \E op \in MutationOps, cred \in Credentials, id \in 1..MaxStorePosts :
          \E body \in (IF op \in {"updatePost", "UpdateQuestionnaire"}
                       THEN UpdateBodies ELSE DeleteBodies) :
             req' = BeforeLookup(op, cred, id, body)
    /\ UNCHANGED <<storeVars, notStore>>

\* Its first store call and the checks on the result.
Lookup ==
    /\ req.pc = "lookup"
    /\ \E fails \in BOOLEAN : req' = AfterLookup(req, fails)
    /\ UNCHANGED <<storeVars, notStore>>

\* Its second store call and the response.
Mutate ==
    /\ req.pc = "mutate"
    /\ \E fails \in BOOLEAN :
          LET r == Called(req, MutationCall(req.op)) IN
          IF fails
          THEN req' = Answer(r, StatusInternalServerError) /\ UNCHANGED <<posts, images>>
          ELSE /\ req' = Answer(r, StatusOK)
               /\ posts' = AfterMutation(req).posts
               /\ images' = AfterMutation(req).images
    /\ UNCHANGED <<nextPostID, nextImageID, notStore>>

\* createPost or CreateQuestionnaire of another client, at its insert.
OtherCreateOf(ops, max) ==
    /\ ~Answered
    /\ nextPostID <= max
    /\ \E op \in ops, cred \in Credentials, body \in CreateBodies :
          LET r == BeforeInsert(op, cred, body) IN
          /\ r.pc = "insert"
          /\ posts' = InsertPost(r.authorID, body.categoryID, body.title, body.desc,
                                 op = "CreateQuestionnaire")
          /\ nextPostID' = nextPostID + 1
    /\ UNCHANGED <<images, nextImageID, req>>

\* An update or delete request of another client, at its mutation: the
\* posts row it looked up is the one it finds now, since no request changes
\* the author of a row and no id is given twice.
OtherMutationOf(ops) ==
    /\ ~Answered
    /\ \E op \in ops, cred \in Credentials, id \in DOMAIN posts :
          \E body \in (IF op \in {"updatePost", "UpdateQuestionnaire"}
                       THEN UpdateBodies ELSE DeleteBodies) :
             LET r == BeforeLookup(op, cred, id, body) IN
             /\ r.pc = "lookup"
             /\ AfterLookup(r, FALSE).pc = "mutate"
             /\ posts' = AfterMutation(r).posts
             /\ images' = AfterMutation(r).images
    /\ UNCHANGED <<nextPostID, nextImageID, req>>

OtherCreate ==
    /\ OtherCreateOf({"createPost", "CreateQuestionnaire"}, MaxStorePosts)
    /\ UNCHANGED notStore

OtherMutation ==
    /\ OtherMutationOf(MutationOps)
    /\ UNCHANGED notStore

Next ==
    \/ CreatePost
    \/ CreateQuestionnaire
    \/ StartMutation
    \/ Lookup
    \/ Mutate
    \/ OtherCreate
    \/ OtherMutation

Spec == Init /\ [][Next]_vars

-----------------------------------------------------------------------------
(* Claims about create, update and delete, under Spec *)

\* The store calls that write.
WriteCalls == {"InsertPost", "InsertQuestionnaire", "UpdatePost", "DeletePostByID",
               "UpdateQuestionnaire", "DeleteQuestionnaire"}

Wrote(r) == \E i \in 1..Len(r.calls) : r.calls[i] \in WriteCalls

\* C3: in createPost, updatePost and deletePost a request whose identity
\* resolution fails ends with the client error and makes no store write, so
\* no post row is ever owned by a caller without identity.
C3_AnonymousNeverWrites ==
    /\ (req.op \in {"createPost", "updatePost", "deletePost"} /\ req.idErr) =>
          /\ ~Wrote(req)
          /\ (Answered /\ ~GetUserIdFromToken(req.cred).panic) =>
                req.resp = <<StatusBadRequest>>
    /\ \A id \in DOMAIN posts : posts[id].authorID \in Users

\* C4: update and delete of posts and questionnaires: when the resource
\* exists and the authenticated caller is not its author the answer is 403
\* and the mutation is not executed; the mutation is executed only when the
\* looked-up author id equals the caller's id.
C4_NonAuthorForbidden ==
    req.op \in MutationOps =>
        /\ (Answered /\ req.looked.found /\ req.cred.kind = "user"
            /\ req.looked.authorID # req.cred.id) =>
              (req.resp = <<StatusForbidden>> /\ ~Wrote(req))
        /\ (req.pc = "mutate" \/ Wrote(req)) =>
              (req.looked.found /\ req.looked.authorID = req.authorID)

\* User 2 is refused the update or delete of a post of user 1 that exists.
C4_Witness ==
    /\ Answered /\ req.op \in MutationOps
    /\ req.cred = [kind |-> "user", id |-> 2]
    /\ req.looked.found /\ req.looked.authorID = 1
    /\ req.id \in DOMAIN posts
    /\ req.resp = <<StatusForbidden>>

\* The owner's update went through.
C4_WitnessOwner ==
    /\ Answered /\ req.op = "updatePost"
    /\ req.cred = [kind |-> "user", id |-> 1]
    /\ req.looked.found /\ req.looked.authorID = 1
    /\ req.resp = <<StatusOK>>
    /\ req.id \in DOMAIN posts /\ posts[req.id].title = <<"a", "b">>

\* C5: update and delete of posts and questionnaires on an id that does not
\* exist answer 404 for every caller, never 403, and execute no mutation.
C5_MissingIsNotFound ==
    (Answered /\ req.op \in MutationOps /\ req.looked.done /\ ~req.looked.found) =>
        /\ req.resp = <<StatusNotFound>>
        /\ ~Wrote(req)

\* What the handlers do satisfy on a missing id: no 403 and no mutation.
C5_MissingNeverForbiddenNorMutated ==
    (Answered /\ req.op \in MutationOps /\ req.looked.done /\ ~req.looked.found) =>
        /\ StatusForbidden \notin Range(req.resp)
        /\ ~Wrote(req)
        /\ Last(req.resp) = NotFoundStatus(req.op)

-----------------------------------------------------------------------------
(* uploadPostImages (118-196) and PostRepository.InsertPostImage (608-631) *)

MaxFiles == 2         \* files of the observed upload request
MaxUploadPosts == 1   \* posts ever inserted beside the upload request

\* What InsertPostImage does and returns, by the first call of it that
\* fails: db.Begin returns its error; a failing tx.Exec or tx.Commit returns
\* err, the nil of db.Begin (620-628), after the rollback; "none" commits.
InsertPostImage(failure) ==
    CASE failure = "begin" -> [committed |-> FALSE, returnsErr |-> TRUE]
      [] failure = "exec"  -> [committed |-> FALSE, returnsErr |-> FALSE]
      [] failure = "commit" -> [committed |-> FALSE, returnsErr |-> FALSE]
      [] OTHER              -> [committed |-> TRUE, returnsErr |-> FALSE]

InsertFailures == {"none", "begin", "exec", "commit"}

\* A goroutine of the loop at 145-191: where it stands, the step that
\* failed in it, whether its record was committed.
NewUnit == [pc |-> "idle", err |-> "none", recorded |-> FALSE]

NoUpload ==
    [ op |-> "none", pc |-> "idle", postID |-> 0, n |-> 0, spawned |-> 0, wg |-> 0,
      resp |-> <<>> ]

Units == DOMAIN unit

\* return of the goroutine: the deferred wg.Done runs.
UnitReturns(u, err, status) ==
    /\ unit' = [unit EXCEPT ![u].pc = "done", ![u].err = err]
    /\ up' = [up EXCEPT !.wg = @ - 1,
                        !.resp = IF status = 0 THEN @ ELSE Append(@, status)]

\* 118-142: the id parameter, the multipart form, the media folder.
StartUpload ==
    /\ last = None
    /\ up.pc = "idle"
    /\ \E id \in 1..MaxUploadPosts, n \in 0..MaxFiles,
          failure \in {"none", "id", "form", "mkdir"} :
          /\ failure # "none" => n = 0
          /\ up' = CASE failure = "none" ->
                          [NoUpload EXCEPT !.op = "uploadPostImages", !.pc = "spawn",
                                           !.postID = id, !.n = n]
                     [] failure = "mkdir" ->
                          [NoUpload EXCEPT !.op = "uploadPostImages", !.pc = "done",
                                           !.postID = id,
                                           !.resp = <<StatusInternalServerError>>]
                     [] OTHER ->
                          [NoUpload EXCEPT !.op = "uploadPostImages", !.pc = "done",
                                           !.resp = <<StatusBadRequest>>]
          /\ unit' = [u \in 1..n |-> NewUnit]
    /\ UNCHANGED <<storeVars, feedVars, last, req, mu>>

\* 145-148: wg.Add(1) and the go statement for the next file.
Spawn ==
    /\ last = None
    /\ up.pc = "spawn" /\ up.spawned < up.n
    /\ up' = [up EXCEPT !.spawned = @ + 1, !.wg = @ + 1]
    /\ unit' = [unit EXCEPT ![up.spawned + 1].pc = "open"]
    /\ UNCHANGED <<storeVars, feedVars, last, req, mu>>

\* 159-175: file.Open and os.OpenFile of the target.
UnitOpen(u) ==
    /\ last = None
    /\ unit[u].pc = "open"
    /\ \/ /\ unit' = [unit EXCEPT ![u].pc = "copy"]
          /\ UNCHANGED up
       \/ UnitReturns(u, "open", StatusInternalServerError)
    /\ UNCHANGED <<storeVars, feedVars, last, req, mu>>

\* 179-182: io.Copy has returned.
UnitCopy(u) ==
    /\ last = None
    /\ unit[u].pc = "copy"
    /\ \/ /\ unit' = [unit EXCEPT ![u].pc = "lock"]
          /\ UNCHANGED up
       \/ UnitReturns(u, "copy", StatusInternalServerError)
    /\ UNCHANGED <<storeVars, feedVars, last, req, mu>>

\* A mutated mutex: Lock never waits.
MutexFreeAlways(m) == TRUE

\* sync.Mutex: Lock returns only when no goroutine holds the mutex.
MutexFree(m) == m = 0

\* 184: mu.Lock() returns once the mutex is free.
UnitLock(u) ==
    /\ last = None
    /\ unit[u].pc = "lock"
    /\ MutexFree(mu)
    /\ mu' = u
    /\ unit' = [unit EXCEPT ![u].pc = "insert"]
    /\ UNCHANGED <<storeVars, feedVars, last, req, up>>

\* 185-188: InsertPostImage under the mutex; on an error the response and
\* the return, which leaves the mutex locked.
UnitInsert(u) ==
    /\ last = None
    /\ unit[u].pc = "insert"
    /\ \E failure \in InsertFailures :
          LET r == InsertPostImage(failure) IN
          /\ IF r.committed
             THEN /\ images' = Append(images, [id |-> nextImageID, postID |-> up.postID,
                                               path |-> u])
                  /\ nextImageID' = nextImageID + 1
             ELSE UNCHANGED <<images, nextImageID>>
          /\ IF r.returnsErr
             THEN /\ UnitReturns(u, failure, StatusInternalServerError)
                  /\ UNCHANGED mu
             ELSE /\ unit' = [unit EXCEPT ![u].pc = "unlock", ![u].err = failure,
                                          ![u].recorded = r.committed]
                  /\ UNCHANGED <<up, mu>>
    /\ UNCHANGED <<posts, nextPostID, feedVars, last, req>>

\* 189-190: mu.Unlock() and the end of the goroutine.
UnitUnlock(u) ==
    /\ last = None
    /\ unit[u].pc = "unlock"
    /\ mu' = 0
    /\ UnitReturns(u, unit[u].err, 0)
    /\ UNCHANGED <<storeVars, feedVars, last, req>>

\* 193-195: wg.Wait() returns when the counter is zero; the response.
Wait ==
    /\ last = None
    /\ up.pc = "spawn" /\ up.spawned = up.n
    /\ up.wg = 0
    /\ up' = [up EXCEPT !.pc = "done", !.resp = Append(@, StatusOK)]
    /\ UNCHANGED <<storeVars, feedVars, last, req, unit, mu>>

-----------------------------------------------------------------------------
(* readPost (347-442) and PostRepository.FetchPostByID (729-796) *)

\* The rows of FetchPostByID: the post joined with its user (753) and,
\* LEFT JOIN, with its images (755).
FetchPostByID(postID, authorID) ==
    IF postID \in DOMAIN posts /\ posts[postID].authorID \in Users
    THEN JoinedRows(postID, authorID)
    ELSE <<>>

\* 387-396: the image list of the detail response.
DetailImages(ps) ==
    IF ps[1].imageValid THEN [i \in 1..Len(ps) |-> PostImageResponseOf(ps[i])]
    ELSE <<>>

DetailResponse(cred, id, status, found, body) ==
    [op |-> "readPost", cred |-> cred, id |-> id, status |-> status,
     found |-> found, body |-> body]

NoDetail == [post |-> <<>>, images |-> <<>>]

\* The response of readPost; failure names the call that fails, if any.
ReadPostResponse(cred, id, failure) ==
    LET authorID == GetUserIDAvoidPanic(cred)
        ps == FetchPostByID(id, authorID)
    IN CASE failure = "id" -> DetailResponse(cred, id, StatusBadRequest, FALSE, NoDetail)
         [] failure = "fetch" ->
              DetailResponse(cred, id, StatusInternalServerError, FALSE, NoDetail)
         [] Len(ps) = 0 -> DetailResponse(cred, id, StatusNotFound, FALSE, NoDetail)
         [] failure = "count" ->
              DetailResponse(cred, id, StatusInternalServerError, TRUE, NoDetail)
         [] OTHER ->
              DetailResponse(cred, id, StatusOK, TRUE,
                  [post |-> PostResponseOf(ps[1], authorID), images |-> DetailImages(ps)])

\* A detail request; the behaviour ends with its answer, which changes
\* nothing.
ReadPost ==
    /\ last = None
    /\ \E cred \in Credentials, id \in 1..MaxUploadPosts,
          failure \in {"none", "id", "fetch", "count"} :
          last' = ReadPostResponse(cred, id, failure)
    /\ UNCHANGED <<storeVars, feedVars, req, uploadVars>>

-----------------------------------------------------------------------------
(* SpecUpload: one upload request, the posts coming and going beside it *)

InitUpload ==
    /\ posts = <<>> /\ images = <<>> /\ nextPostID = 1 /\ nextImageID = 1
    /\ rows = <<>> /\ feed = NotRun /\ last = None
    /\ req = NoRequest
    /\ up = NoUpload /\ unit = <<>> /\ mu = 0

OtherCreatePost ==
    /\ last = None
    /\ OtherCreateOf({"createPost"}, MaxUploadPosts)
    /\ UNCHANGED <<feedVars, last, uploadVars>>

OtherDeletePost ==
    /\ last = None
    /\ OtherMutationOf({"deletePost"})
    /\ UNCHANGED <<feedVars, last, uploadVars>>

NextUpload ==
    \/ StartUpload
    \/ Spawn
    \/ \E u \in Units : UnitOpen(u)
    \/ \E u \in Units : UnitCopy(u)
    \/ \E u \in Units : UnitLock(u)
    \/ \E u \in Units : UnitInsert(u)
    \/ \E u \in Units : UnitUnlock(u)
    \/ Wait
    \/ OtherCreatePost
    \/ OtherDeletePost
    \/ ReadPost

SpecUpload == InitUpload /\ [][NextUpload]_vars

-----------------------------------------------------------------------------
(* Claims checked under SpecUpload *)

\* The goroutine holding the mutex has returned: no mu.Unlock() follows.
MutexAbandoned == mu # 0 /\ unit[mu].pc = "done"

\* C6: the units of an upload are independent. A unit whose open, copy and
\* record write succeeded has committed its record, and a unit that has
\* copied its file is never kept from its record write by a unit that has
\* already returned.
C6_UnitsIndependent ==
    \A u \in Units :
       /\ unit[u].pc = "done" /\ unit[u].err = "none" => unit[u].recorded
       /\ unit[u].pc = "lock" => ~MutexAbandoned

\* C6, the case that holds: with no error returned by InsertPostImage the
\* mutex is never left locked.
C6_ReleasedUnlessInsertError ==
    MutexAbandoned => unit[mu].err = "begin"

\* C7: every post_images record references a post that exists.
C7_ImagesReferencePosts ==
    \A i \in 1..Len(images) : images[i].postID \in DOMAIN posts

\* C7, the part on DeletePostByID: the step that deletes a post leaves no
\* image record of it.
C7_DeleteRemovesImages ==
    [][ posts' # posts /\ DOMAIN posts' # DOMAIN posts /\ nextPostID' = nextPostID
        => \A id \in DOMAIN posts \ DOMAIN posts' :
              \A i \in 1..Len(images') : images'[i].postID # id ]_vars

IsDetail == last.op = "readPost" /\ last.status \in {StatusOK, StatusNotFound}

DetailImagesOfStore(id) ==
    [i \in 1..Len(ImagesOf(id, 1)) |->
        [id |-> ImagesOf(id, 1)[i].id, url |-> ImagesOf(id, 1)[i].path]]

\* C10: a detail request answers 404 when no post has the id, and
\* otherwise succeeds with exactly the images of the post, none when it has
\* none.
C10_DetailNotFoundOrImages ==
    IsDetail =>
       IF last.id \in DOMAIN posts
       THEN last.status = StatusOK /\ last.body.images = DetailImagesOfStore(last.id)
       ELSE last.status = StatusNotFound

\* C10, for the posts whose author is a user.
C10_DetailOfUserPosts ==
    IsDetail /\ (last.id \in DOMAIN posts => posts[last.id].authorID \in Users) =>
       IF last.id \in DOMAIN posts
       THEN last.status = StatusOK /\ last.body.images = DetailImagesOfStore(last.id)
       ELSE last.status = StatusNotFound

C10_WitnessImages ==
    IsDetail /\ last.status = StatusOK /\ Len(last.body.images) = 2

C10_WitnessNoImages ==
    IsDetail /\ last.status = StatusOK /\ Len(last.body.images) = 0

-----------------------------------------------------------------------------
(* Claims on the moderation gate, checked under Spec *)

GatedOps == {"createPost", "updatePost", "CreateQuestionnaire", "UpdateQuestionnaire"}

\* The observed request has come to the classification of its fields:
\* first thing after the binding in createPost and the questionnaire
\* handlers, after the lookup and the ownership comparison in updatePost.
Classified(r) ==
    /\ r.op \in GatedOps /\ r.body.ok
    /\ r.op = "updatePost" =>
          /\ r.looked # NotLooked /\ r.looked.found
          /\ Authorized(r.looked.authorID, r.authorID)

Rejected(body) == ~Validate(body.title) \/ ~Validate(body.desc)

\* C11: a request whose title or description is rejected makes no insert
\* and no update; once its fields were classified it ends with the client
\* error as its last response; and no stored title or description is a
\* rejected one.
C11_ModerationGate ==
    /\ (req.op \in GatedOps /\ req.body.ok /\ Rejected(req.body)) =>
          /\ ~Wrote(req)
          /\ (Answered /\ Classified(req)) => Last(req.resp) = StatusBadRequest
    /\ \A id \in DOMAIN posts :
          Validate(posts[id].title) /\ Validate(posts[id].desc)

C11_Witness ==
    /\ Answered /\ req.op = "updatePost" /\ Classified(req)
    /\ Validate(req.body.title) /\ ~Validate(req.body.desc)
    /\ Last(req.resp) = StatusBadRequest
    /\ posts # <<>>

\* C11, the other side: requests with acceptable fields do write.
C11_WitnessAccepted ==
    /\ Answered /\ req.op \in GatedOps /\ ~Rejected(req.body) /\ Wrote(req)

-----------------------------------------------------------------------------
(* Claims on the mutex and the wait group, checked under SpecUpload *)

InSection == {u \in Units : unit[u].pc \in {"insert", "unlock"}}

\* C12: at most one unit of an upload is between mu.Lock() and
\* mu.Unlock(), where InsertPostImage runs, and it is the holder of the
\* mutex.
C12_OneUnitInSection ==
    /\ Cardinality(InSection) <= 1
    /\ \A u \in InSection : mu = u

\* One unit is in its InsertPostImage call while another, its file copied,
\* waits for the mutex.
C12_Witness ==
    \E u, v \in Units :
       u # v /\ unit[u].pc = "insert" /\ unit[v].pc = "lock" /\ mu = u

\* C12, the copies: two units are copying at once.
C12_WitnessCopiesOverlap ==
    \E u, v \in Units : u # v /\ unit[u].pc = "copy" /\ unit[v].pc = "copy"

\* C13: no response of an upload request is written while one of its
\* units is still running.
C13_NoResponseWhileRunning ==
    up.resp # <<>> => \A u \in Units : unit[u].pc = "done"

\* C13, the fan-in: the handler passes wg.Wait() and writes its own
\* response only when every unit has returned.
C13_HandlerAnswersAfterUnits ==
    [][ up.pc = "spawn" /\ up'.pc = "done" =>
           /\ up.spawned = up.n
           /\ \A u \in Units : unit[u].pc = "done" ]_vars

-----------------------------------------------------------------------------
(* SpecUploadLive: the upload request under fair scheduling *)

(* Every goroutine that can take a step takes it eventually, and so does   *)
(* the handler: weak fairness on each step of each unit, on the loop and   *)
(* on the wait. A file copy or a store call in progress is a step that is  *)
(* enabled, so each of them returns. The other clients are under no        *)
(* obligation. The detail request, after which nothing is observed, is     *)
(* left out.                                                               *)

UnitStep(u) ==
    /\ u \in Units
    /\ \/ UnitOpen(u)
       \/ UnitCopy(u)
       \/ UnitLock(u)
       \/ UnitInsert(u)
       \/ UnitUnlock(u)

NextUploadLive ==
    \/ StartUpload
    \/ Spawn
    \/ \E u \in 1..MaxFiles : UnitStep(u)
    \/ Wait
    \/ OtherCreatePost
    \/ OtherDeletePost

Fairness ==
    /\ WF_vars(Spawn)
    /\ WF_vars(Wait)
    /\ \A u \in 1..MaxFiles : WF_vars(UnitStep(u))

SpecUploadLive == InitUpload /\ [][NextUploadLive]_vars /\ Fairness

\* C14: an upload request that has started its units eventually writes its
\* final response.
C14_UploadTerminates ==
    (up.pc = "spawn") ~> (up.pc = "done")

\* C14, the case that holds: the request ends unless a unit has returned
\* with the mutex locked.
C14_TerminatesUnlessAbandoned ==
    (up.pc = "spawn") ~> (up.pc = "done" \/ MutexAbandoned)

-----------------------------------------------------------------------------
(* Claims on the responses of a request *)

\* C15: an invocation of createPost, updatePost or deletePost never writes
\* a second response, has written exactly one when it returns, and makes
\* no store call after the error response of a failed identity step.
C15_OneResponse ==
    req.op \in {"createPost", "updatePost", "deletePost"} =>
       /\ Len(req.resp) <= 1
       /\ Answered => Len(req.resp) = 1
       /\ req.idErr => req.calls = <<>>

\* C15 for uploadPostImages, under SpecUpload: one response, and no
\* response after the error response of a unit.
C15_UploadOneResponse ==
    /\ Len(up.resp) <= 1
    /\ up.pc = "done" /\ up.op = "uploadPostImages" => Len(up.resp) = 1

\* C15, what holds: the questionnaire handlers, which return after the
\* error response, write one response.
C15_QuestionnaireOneResponse ==
    req.op \in {"CreateQuestionnaire", "UpdateQuestionnaire", "DeleteQuestionnaire"} =>
       /\ Len(req.resp) <= 1
       /\ Answered => Len(req.resp) = 1
       /\ req.idErr => req.calls = <<>>

-----------------------------------------------------------------------------
(* Claim on the result of InsertPostImage, checked under SpecUpload *)

\* The unit's call of InsertPostImage has returned nil: it is past the
\* test at 185 and before mu.Unlock().
ReturnedNil(u) == unit[u].pc = "unlock"

\* C16: InsertPostImage returns nil only if the record was committed.
C16_NilOnlyIfCommitted ==
    \A u \in Units : ReturnedNil(u) => unit[u].recorded

\* C16, what holds: a call that returns an error has persisted nothing, and
\* a failed call never persists a record.
C16_ErrorMeansNoRecord ==
    \A u \in Units : unit[u].err # "none" => ~unit[u].recorded

====
